---- MODULE Spec2Model ----
(***************************************************************************)
(* Recipe-sharing backend (Django REST framework): the relational store,   *)
(* the recipe payload validation, the create/update mutation logic, the    *)
(* favorite / rating / shopping-list handlers and the access control of    *)
(* src/recipes.                                                            *)
(*                                                                         *)
(* Python dicts are functions whose DOMAIN is the set of keys present      *)
(* (data.get(k, d) is Get(data, k, d)).  Decimal amounts (two decimal      *)
(* places) are integers counting hundredths.  Tables whose uniqueness is   *)
(* a database constraint are bags of rows, so that a duplicate row is a    *)
(* state the model can express.                                            *)
(***************************************************************************)
EXTENDS Integers, Sequences, FiniteSets, Bags, TLC

(* ------------------------------ bounds --------------------------------- *)
\* recipes ever created in one run (recipe ids are 1..MaxRecipes)
MaxRecipes == 2
\* longest ingredient list drawn for the validation inputs
MaxLen == 2
MaxComments == 1

(* ------------------------- program constants --------------------------- *)
\* "float(amount) < 0.1": 0.1 in hundredths
MinAmount == 10
\* DecimalField(max_digits=5, decimal_places=2): 999.99 in hundredths
MaxAmount == 99999
\* validators=[MinValueValidator(1), MaxValueValidator(600)] of time_minutes
MinTime == 1
MaxTime == 600
\* "int(value) < 1 or int(value) > 5"
MinRating == 1
MaxRating == 5

(* ------------------------------ domains -------------------------------- *)
Users == {"alice", "bob"}
Anonymous == "anonymous"
Callers == Users \cup {Anonymous}
TagIds == {"t1", "t2"}
\* Ingredient rows by id; unique_together = ('name', 'unit')
IngredientCatalog ==
    << [name |-> "flour", unit |-> "g"],
       [name |-> "sugar", unit |-> "g"],
       [name |-> "egg", unit |-> "pcs"],
       [name |-> "flour", unit |-> "kg"] >>
IngredientIds == 1..Len(IngredientCatalog)
Workers == {"w1", "w2"}

(* --------------------------- dict helpers ------------------------------ *)
EmptyDict == [k \in {} |-> k]
Get(d, k, default) == IF k \in DOMAIN d THEN d[k] ELSE default
Range(s) == {s[k] : k \in DOMAIN s}

VARIABLES
    ingredients,   \* ids of the stored Ingredient rows
    recipes,       \* recipe id -> [author, title, description, steps, time_minutes, tags]
    recipeSeq,     \* last recipe id handed out (auto-increment)
    rows,          \* bag of RecipeIngredient rows [recipe, ingredient, amount]
    favorites,     \* bag of Favorite rows [user, recipe]
    ratings,       \* bag of Rating rows [user, recipe, value]
    comments,      \* comment id -> [recipe, author, text]
    commentSeq,    \* last comment id handed out
    inflight,      \* worker -> the create/update request it is executing, or Idle
    inbox,         \* the payload handed to serializer.is_valid() (validation runs)
    supplied,      \* history: recipe id -> pairs of the last successful list
    response       \* the outcome of the last request that completed

vars == << ingredients, recipes, recipeSeq, rows, favorites, ratings, comments,
           commentSeq, inflight, inbox, supplied, response >>

store == << ingredients, recipes, recipeSeq, rows, favorites, ratings, comments,
            commentSeq >>

(* ------------------------------ storage -------------------------------- *)
RowsOf(bag, r) == {x \in BagToSet(bag) : x.recipe = r}
PairsOf(bag, r) == {<<x.ingredient, x.amount>> : x \in RowsOf(bag, r)}
\* number of rows of recipe r, duplicates counted
CountRows(bag, r) ==
    LET RECURSIVE Sum(_)
        Sum(S) == IF S = {} THEN 0
                  ELSE LET x == CHOOSE y \in S : TRUE
                       IN CopiesIn(x, bag) + Sum(S \ {x})
    IN Sum(RowsOf(bag, r))
\* the bag restricted to the rows kept
Restrict(bag, keep) == [x \in keep |-> bag[x]]

\* mutation of InsertRow: no unique constraint on (recipe, ingredient)
InsertRowNoUnique(bag, ings, r, entry) ==
    IF entry.ingredient \notin ings
        THEN [ok |-> FALSE, rows |-> bag]
    ELSE [ok |-> TRUE,
          rows |-> bag (+) SetToBag({[recipe |-> r,
                                      ingredient |-> entry.ingredient,
                                      amount |-> entry.amount]})]

\* RecipeIngredient.objects.create: the INSERT fails (IntegrityError) when the
\* ingredient row is gone (foreign key) or (recipe, ingredient) is taken
InsertRow(bag, ings, r, entry) ==
    IF entry.ingredient \notin ings
        THEN [ok |-> FALSE, rows |-> bag]
    ELSE IF \E x \in RowsOf(bag, r) : x.ingredient = entry.ingredient
        THEN [ok |-> FALSE, rows |-> bag]
    ELSE [ok |-> TRUE,
          rows |-> bag (+) SetToBag({[recipe |-> r,
                                      ingredient |-> entry.ingredient,
                                      amount |-> entry.amount]})]

\* the "for ing_data in ingredients_data" loop from entry k on, run to its
\* end or to the first INSERT that raises
RECURSIVE InsertAll(_, _, _, _, _)
InsertAll(bag, ings, r, list, k) ==
    IF k > Len(list) THEN [ok |-> TRUE, rows |-> bag]
    ELSE LET one == InsertRow(bag, ings, r, list[k])
         IN IF one.ok THEN InsertAll(one.rows, ings, r, list, k + 1)
            ELSE one

\* mutation of DeleteRows: the old rows are kept (a merge)
DeleteRowsKeepsOld(bag, r) == bag

\* instance.recipe_ingredients.all().delete()
DeleteRows(bag, r) == Restrict(bag, {x \in BagToSet(bag) : x.recipe # r})

(* ----------------------------- validation ------------------------------ *)
Failure(code, id) == [ok |-> FALSE, error |-> code, ingredient |-> id]
Success == [ok |-> TRUE, error |-> "", ingredient |-> 0]

\* the serializer fields' own checks, run before validate()
RequiredFields == {"title", "description", "time_minutes", "tag_ids"}
FieldsValid(raw, partial) ==
    /\ partial \/ RequiredFields \subseteq DOMAIN raw
    /\ "time_minutes" \in DOMAIN raw => raw.time_minutes \in MinTime..MaxTime
    /\ "ingredients_data" \in DOMAIN raw =>
          \A k \in DOMAIN raw.ingredients_data :
              LET e == raw.ingredients_data[k]
              IN /\ {"ingredient", "amount"} \subseteq DOMAIN e
                 /\ e.amount \in (0 - MaxAmount)..MaxAmount

\* tag_ids is declared with source='tags'
ToInternalValue(raw) ==
    LET keys == (DOMAIN raw \ {"tag_ids"})
                \cup (IF "tag_ids" \in DOMAIN raw THEN {"tags"} ELSE {})
    IN [k \in keys |-> IF k = "tags" THEN raw.tag_ids ELSE raw[k]]

\* mutation of ValidateEach: existence is looked up before the amount check
RECURSIVE ValidateEachExistenceFirst(_, _, _)
ValidateEachExistenceFirst(list, ings, k) ==
    IF k > Len(list) THEN Success
    ELSE LET e == list[k]
         IN IF e.ingredient \notin ings
                THEN Failure("UnknownIngredient", e.ingredient)
            ELSE IF "amount" \notin DOMAIN e \/ e.amount = 0 \/ e.amount < MinAmount
                THEN Failure("InvalidAmount", 0)
            ELSE ValidateEachExistenceFirst(list, ings, k + 1)

\* the "for ing_data in ingredients_data" loop of validate() from entry k on
RECURSIVE ValidateEach(_, _, _)
ValidateEach(list, ings, k) ==
    IF k > Len(list) THEN Success
    ELSE LET e == list[k]
         IN IF "amount" \notin DOMAIN e \/ e.amount = 0 \/ e.amount < MinAmount
                THEN Failure("InvalidAmount", 0)
            ELSE IF e.ingredient \notin ings
                THEN Failure("UnknownIngredient", e.ingredient)
            ELSE ValidateEach(list, ings, k + 1)

Validate(data, ings) ==
    LET tags == Get(data, "tags", {})
        list == Get(data, "ingredients_data", << >>)
        ids  == [k \in DOMAIN list |-> list[k].ingredient]
    IN IF tags = {} THEN Failure("MissingTags", 0)
       ELSE IF Len(list) = 0 THEN Failure("MissingIngredients", 0)
       ELSE IF Len(ids) # Cardinality(Range(ids))
           THEN Failure("DuplicateIngredient", 0)
       ELSE ValidateEach(list, ings, 1)

\* serializer.is_valid(): field checks, then validate()
IsValid(raw, partial, ings) ==
    IF ~FieldsValid(raw, partial) THEN Failure("FieldError", 0)
    ELSE Validate(ToInternalValue(raw), ings)

(* --------------------------- access control ---------------------------- *)
SafeMethods == {"GET", "HEAD", "OPTIONS"}
MethodOf(action) ==
    CASE action \in {"list", "retrieve"} -> "GET"
      [] action = "update" -> "PUT"
      [] action = "partial_update" -> "PATCH"
      [] action \in {"destroy", "unfavorite", "rating_delete"} -> "DELETE"
      [] OTHER -> "POST"

\* RecipeViewSet.get_permissions: the permission class used for an action
RecipePermissions(action) ==
    IF action \in {"create"} THEN "IsAuthenticated"
    ELSE IF action \in {"update", "partial_update", "destroy"}
        THEN "IsAuthorOrReadOnly"
    ELSE "AllowAny"

\* CommentViewSet.get_permissions
CommentPermissions(action) ==
    IF action \in {"create"} THEN "IsAuthenticated"
    ELSE IF action \in {"update", "partial_update", "destroy"}
        THEN "IsAuthorOrReadOnly"
    ELSE "AllowAny"

\* IngredientViewSet.get_permissions (falls back to permission_classes)
IngredientPermissions(action) ==
    IF action \in {"create", "update", "partial_update", "destroy"}
        THEN "IsAuthenticated"
    ELSE "AllowAny"

\* has_permission of the class, checked before the handler runs
HasPermission(perm, caller) ==
    IF perm = "IsAuthenticated" THEN caller \in Users ELSE TRUE

HasObjectPermissionAllowAll(perm, method, author, caller) == TRUE

\* IsAuthorOrReadOnly.has_object_permission; the other classes allow
HasObjectPermission(perm, method, author, caller) ==
    IF perm = "IsAuthorOrReadOnly"
        THEN IF method \in SafeMethods THEN TRUE ELSE author = caller
    ELSE TRUE

\* the status of a refused request: not authenticated, or not permitted
Denied(caller) ==
    IF caller = Anonymous THEN "NotAuthenticated" ELSE "PermissionDenied"

(* ------------------------------ responses ------------------------------ *)
NoResponse ==
    [op |-> "none", caller |-> Anonymous, target |-> 0, status |-> "none",
     error |-> "", permitted |-> FALSE, input |-> EmptyDict, body |-> EmptyDict]
Reply(op, caller, target, status, error, permitted) ==
    [op |-> op, caller |-> caller, target |-> target, status |-> status,
     error |-> error, permitted |-> permitted, input |-> EmptyDict,
     body |-> EmptyDict]

(* --------------------------- recipe mutation --------------------------- *)
\* Recipe.objects.create(**validated_data); steps has default=list
NewRecipe(data, author) ==
    [author |-> author, title |-> data.title, description |-> data.description,
     steps |-> Get(data, "steps", << >>), time_minutes |-> data.time_minutes,
     tags |-> {}]

\* instance.<field> = validated_data.get(<field>, instance.<field>); save()
SaveScalars(instance, data) ==
    [instance EXCEPT !.title = Get(data, "title", @),
                     !.description = Get(data, "description", @),
                     !.steps = Get(data, "steps", @),
                     !.time_minutes = Get(data, "time_minutes", @)]

\* update: "if tags is not None: instance.tags.set(tags)"
TagsSet(instance, data) ==
    IF "tags" \in DOMAIN data THEN [instance EXCEPT !.tags = data.tags]
    ELSE instance

\* create: "if tags: recipe.tags.set(tags)"
TagsSetIfAny(instance, data) ==
    IF Get(data, "tags", {}) # {} THEN [instance EXCEPT !.tags = data.tags]
    ELSE instance

\* the rows after the update's replacement: delete all, insert the list
ReplaceRows(bag, ings, r, data) ==
    IF "ingredients_data" \in DOMAIN data
        THEN InsertAll(DeleteRows(bag, r), ings, r, data.ingredients_data, 1)
    ELSE [ok |-> TRUE, rows |-> bag]

ListPairs(list) == {<<list[k].ingredient, list[k].amount>> : k \in DOMAIN list}

(* ------------------------- request payloads ---------------------------- *)
Entry(i, a) == [ingredient |-> i, amount |-> a]
ScalarsA ==
    [title |-> "soup", description |-> "thin", steps |-> << "boil" >>,
     time_minutes |-> 30]
ScalarsB ==
    [title |-> "stew", description |-> "thick", steps |-> << "chop", "boil" >>,
     time_minutes |-> 45]
TagsPart(t) == [tag_ids |-> t]
ListPart(l) == [ingredients_data |-> l]

\* the payloads of the recipe create/update runs
RecipePayloads ==
    { ScalarsA @@ TagsPart({"t1"}) @@ ListPart(<< Entry(1, 10) >>),
      ScalarsB @@ TagsPart({"t1", "t2"})
               @@ ListPart(<< Entry(1, 25), Entry(2, 10) >>),
      ScalarsA @@ TagsPart({"t1"}) @@ ListPart(<< Entry(2, 10), Entry(1, 25) >>),
      TagsPart({"t2"}) @@ ListPart(<< Entry(2, 10) >>),
      [title |-> "stew"],
      [title |-> "stew"] @@ TagsPart({"t2"}),
      [time_minutes |-> MaxTime + 1] @@ TagsPart({"t2"})
               @@ ListPart(<< Entry(2, 10) >>),
      ScalarsB @@ TagsPart({}) @@ ListPart(<< Entry(1, 10) >>),
      ScalarsB @@ TagsPart({"t1"}) @@ ListPart(<< Entry(1, 10), Entry(1, 25) >>),
      ScalarsB @@ TagsPart({"t1"}) @@ ListPart(<< Entry(1, 5), Entry(2, 10) >>),
      ScalarsB @@ TagsPart({"t1"}) @@ ListPart(<< Entry(2, 10), Entry(3, 10) >>) }

(* ------------------------------- Init ---------------------------------- *)
Idle == [op |-> "idle"]

\* an empty store in which the ingredients ings have been created
InitWith(ings) ==
    /\ ingredients = ings
    /\ recipes = EmptyDict
    /\ recipeSeq = 0
    /\ rows = EmptyBag
    /\ favorites = EmptyBag
    /\ ratings = EmptyBag
    /\ comments = EmptyDict
    /\ commentSeq = 0
    /\ inflight = [w \in Workers |-> Idle]
    /\ inbox = EmptyDict
    /\ supplied = EmptyDict
    /\ response = NoResponse

Init == InitWith({1, 2})

(* ---------------- recipe handlers, one request at a time --------------- *)
\* POST /recipes/: IsAuthenticated, is_valid, perform_create(author=user)
CreateRecipe(caller, raw) ==
    /\ recipeSeq < MaxRecipes
    /\ UNCHANGED << ingredients, favorites, ratings, comments, commentSeq,
                    inflight, inbox >>
    /\ LET perm == RecipePermissions("create")
           v == IsValid(raw, FALSE, ingredients)
           id == recipeSeq + 1
           data == ToInternalValue(raw)
           made == TagsSetIfAny(NewRecipe(data, caller), data)
           ins == InsertAll(rows, ingredients, id, data.ingredients_data, 1)
       IN IF ~HasPermission(perm, caller)
              THEN /\ response' = [Reply("create", caller, 0, Denied(caller),
                                         "", FALSE) EXCEPT !.input = raw]
                   /\ UNCHANGED << recipes, recipeSeq, rows, supplied >>
          ELSE IF ~v.ok
              THEN /\ response' = [Reply("create", caller, 0, "BadRequest",
                                         v.error, TRUE) EXCEPT !.input = raw]
                   /\ UNCHANGED << recipes, recipeSeq, rows, supplied >>
          ELSE /\ recipeSeq' = id
               /\ recipes' = (id :> made) @@ recipes
               /\ rows' = ins.rows
               /\ supplied' = IF ins.ok
                                  THEN (id :> data.ingredients_data) @@ supplied
                                  ELSE supplied
               /\ response' = [Reply("create", caller, id,
                                     IF ins.ok THEN "Created" ELSE "ServerError",
                                     "", TRUE) EXCEPT !.input = raw]

\* PUT/PATCH /recipes/{r}/: get_object, IsAuthorOrReadOnly, is_valid, update
UpdateRecipe(caller, r, raw, partial) ==
    /\ UNCHANGED << ingredients, recipeSeq, favorites, ratings, comments,
                    commentSeq, inflight, inbox >>
    /\ LET action == IF partial THEN "partial_update" ELSE "update"
           perm == RecipePermissions(action)
           v == IsValid(raw, partial, ingredients)
           data == ToInternalValue(raw)
           saved == TagsSet(SaveScalars(recipes[r], data), data)
           rep == ReplaceRows(rows, ingredients, r, data)
       IN IF ~HasPermission(perm, caller)
              THEN /\ response' = [Reply(action, caller, r, Denied(caller),
                                         "", FALSE) EXCEPT !.input = raw]
                   /\ UNCHANGED << recipes, rows, supplied >>
          ELSE IF r \notin DOMAIN recipes
              THEN /\ response' = [Reply(action, caller, r, "NotFound",
                                         "", TRUE) EXCEPT !.input = raw]
                   /\ UNCHANGED << recipes, rows, supplied >>
          ELSE IF ~HasObjectPermission(perm, MethodOf(action),
                                       recipes[r].author, caller)
              THEN /\ response' = [Reply(action, caller, r, Denied(caller),
                                         "", FALSE) EXCEPT !.input = raw]
                   /\ UNCHANGED << recipes, rows, supplied >>
          ELSE IF ~v.ok
              THEN /\ response' = [Reply(action, caller, r, "BadRequest",
                                         v.error, TRUE) EXCEPT !.input = raw]
                   /\ UNCHANGED << recipes, rows, supplied >>
          ELSE /\ recipes' = [recipes EXCEPT ![r] = saved]
               /\ rows' = rep.rows
               /\ supplied' =
                      IF rep.ok /\ "ingredients_data" \in DOMAIN data
                          THEN [supplied EXCEPT ![r] = data.ingredients_data]
                          ELSE supplied
               /\ response' = [Reply(action, caller, r,
                                     IF rep.ok THEN "OK" ELSE "ServerError",
                                     "", TRUE) EXCEPT !.input = raw]

\* recipes are created by alice; alice and bob send the updates
Next ==
    \/ \E raw \in RecipePayloads : CreateRecipe("alice", raw)
    \/ \E caller \in Users, r \in 1..MaxRecipes, raw \in RecipePayloads,
          partial \in BOOLEAN : UpdateRecipe(caller, r, raw, partial)

Spec == Init /\ [][Next]_vars

(* ------------------- validation as a function of its input ------------- *)
\* entries of the validation inputs; an entry may lack its amount
ValidationEntries ==
    {Entry(i, a) : i \in {1, 2, 3}, a \in {0, 5, 10}}
        \cup {[ingredient |-> i] : i \in {1, 2, 3}}
SeqsUpTo(S, n) == UNION {[1..m -> S] : m \in 0..n}
ValidationInputs ==
    {[raw |-> ScalarsA @@ t @@ l, partial |-> p] :
        t \in {EmptyDict, TagsPart({}), TagsPart({"t1"})},
        l \in {EmptyDict} \cup {ListPart(x) : x \in SeqsUpTo(ValidationEntries, MaxLen)},
        p \in BOOLEAN}

InitValidate ==
    /\ ingredients = {1, 2}
    /\ recipes = EmptyDict
    /\ recipeSeq = 0
    /\ rows = EmptyBag
    /\ favorites = EmptyBag
    /\ ratings = EmptyBag
    /\ comments = EmptyDict
    /\ commentSeq = 0
    /\ inflight = [w \in Workers |-> Idle]
    /\ inbox \in ValidationInputs
    /\ supplied = EmptyDict
    /\ response = NoResponse

\* serializer.is_valid() on the payload received
RunValidation ==
    /\ response.op = "none"
    /\ response' = [Reply("is_valid", Anonymous, 0, "none", "", TRUE)
                       EXCEPT !.body = IsValid(inbox.raw, inbox.partial, ingredients)]
    /\ UNCHANGED << store, inflight, inbox, supplied >>

NextValidate == RunValidation

SpecValidate == InitValidate /\ [][NextValidate]_vars

(* ------------- recipe handlers, requests running concurrently ---------- *)
(* Each worker handles one request at a time.  No statement of create() or *)
(* update() runs inside transaction.atomic, so every ORM call commits on   *)
(* its own and the calls of concurrent requests interleave.  The writes of *)
(* the recipe's own columns and tags are taken as one step; every write of *)
(* a RecipeIngredient row is a step of its own.  The history variable      *)
(* supplied belongs to the one-at-a-time handlers and is left alone here.  *)

\* the payloads of the concurrent runs
ConcurrentPayloads ==
    { ScalarsA @@ TagsPart({"t1"}) @@ ListPart(<< Entry(1, 10) >>),
      ScalarsA @@ TagsPart({"t1"}) @@ ListPart(<< Entry(1, 25), Entry(2, 10) >>),
      ScalarsA @@ TagsPart({"t1"}) @@ ListPart(<< Entry(2, 5) >>) }

Busy(w) == inflight[w].op # "idle"
PendingCreates ==
    Cardinality({w \in Workers : Busy(w) /\ inflight[w].pc = "create"})
Finish(w) == [inflight EXCEPT ![w] = Idle]

\* POST /recipes/ up to the end of is_valid()
BeginCreate(w, caller, raw) ==
    /\ ~Busy(w)
    /\ recipeSeq + PendingCreates < MaxRecipes
    /\ UNCHANGED << store, inbox, supplied >>
    /\ LET v == IsValid(raw, FALSE, ingredients)
       IN IF ~HasPermission(RecipePermissions("create"), caller)
              THEN /\ response' = Reply("create", caller, 0, Denied(caller), "", FALSE)
                   /\ UNCHANGED inflight
          ELSE IF ~v.ok
              THEN /\ response' = Reply("create", caller, 0, "BadRequest", v.error, TRUE)
                   /\ UNCHANGED inflight
          ELSE /\ inflight' = [inflight EXCEPT ![w] =
                      [op |-> "create", caller |-> caller, recipe |-> 0,
                       data |-> ToInternalValue(raw), pc |-> "create", k |-> 1,
                       known |-> ingredients, old |-> {}]]
               /\ UNCHANGED response

\* PUT /recipes/{r}/ up to the end of is_valid(); get_object() loads instance
BeginUpdate(w, caller, r, raw) ==
    /\ ~Busy(w)
    /\ UNCHANGED << store, inbox, supplied >>
    /\ LET perm == RecipePermissions("update")
           v == IsValid(raw, FALSE, ingredients)
       IN IF ~HasPermission(perm, caller)
              THEN /\ response' = Reply("update", caller, r, Denied(caller), "", FALSE)
                   /\ UNCHANGED inflight
          ELSE IF r \notin DOMAIN recipes
              THEN /\ response' = Reply("update", caller, r, "NotFound", "", TRUE)
                   /\ UNCHANGED inflight
          ELSE IF ~HasObjectPermission(perm, "PUT", recipes[r].author, caller)
              THEN /\ response' = Reply("update", caller, r, Denied(caller), "", FALSE)
                   /\ UNCHANGED inflight
          ELSE IF ~v.ok
              THEN /\ response' = Reply("update", caller, r, "BadRequest", v.error, TRUE)
                   /\ UNCHANGED inflight
          ELSE /\ inflight' = [inflight EXCEPT ![w] =
                      [op |-> "update", caller |-> caller, recipe |-> r,
                       data |-> ToInternalValue(raw), pc |-> "save", k |-> 1,
                       known |-> ingredients, instance |-> recipes[r],
                       old |-> {}]]
               /\ UNCHANGED response

\* create: Recipe.objects.create(**validated_data) and "if tags:
\* recipe.tags.set(tags)", which write the new recipe only
StepCreate(w) ==
    /\ Busy(w) /\ inflight[w].pc = "create"
    /\ recipeSeq' = recipeSeq + 1
    /\ recipes' = (recipeSeq' :> TagsSetIfAny(NewRecipe(inflight[w].data,
                                                        inflight[w].caller),
                                              inflight[w].data))
                      @@ recipes
    /\ inflight' = [inflight EXCEPT ![w].recipe = recipeSeq', ![w].pc = "insert"]
    /\ UNCHANGED << ingredients, rows, favorites, ratings, comments, commentSeq,
                    inbox, supplied, response >>

\* update: the four assignments, instance.save() (it writes the instance
\* loaded by get_object()) and "if tags is not None: instance.tags.set(tags)"
StepSave(w) ==
    /\ Busy(w) /\ inflight[w].pc = "save"
    /\ LET r == inflight[w].recipe
           saved == SaveScalars(inflight[w].instance, inflight[w].data)
       IN recipes' = [recipes EXCEPT ![r] =
                         TagsSet([saved EXCEPT !.tags = recipes[r].tags],
                                 inflight[w].data)]
    /\ inflight' = [inflight EXCEPT ![w].pc = "delete"]
    /\ UNCHANGED << ingredients, recipeSeq, rows, favorites, ratings, comments,
                    commentSeq, inbox, supplied, response >>

\* update: instance.recipe_ingredients.all().delete()
StepDelete(w) ==
    /\ Busy(w) /\ inflight[w].pc = "delete"
    /\ LET r == inflight[w].recipe
       IN IF "ingredients_data" \in DOMAIN inflight[w].data
              THEN /\ rows' = DeleteRows(rows, r)
                   /\ inflight' = [inflight EXCEPT ![w].pc = "insert",
                                                   ![w].old = PairsOf(rows, r)]
                   /\ UNCHANGED response
              ELSE /\ rows' = rows
                   /\ inflight' = Finish(w)
                   /\ response' = Reply("update", inflight[w].caller, r, "OK", "", TRUE)
    /\ UNCHANGED << ingredients, recipes, recipeSeq, favorites, ratings, comments,
                    commentSeq, inbox, supplied >>

\* one RecipeIngredient.objects.create of the loop; an IntegrityError is not
\* caught and ends the request; after the last entry the handler returns
StepInsert(w) ==
    /\ Busy(w) /\ inflight[w].pc = "insert"
    /\ LET r == inflight[w].recipe
           list == inflight[w].data.ingredients_data
           k == inflight[w].k
           one == InsertRow(rows, ingredients, r, list[k])
           note == [old |-> inflight[w].old,
                    inserted |-> {<<list[j].ingredient, list[j].amount>> :
                                     j \in 1..(k - 1)}]
       IN /\ rows' = one.rows
          /\ IF ~one.ok
                 THEN /\ inflight' = Finish(w)
                      /\ supplied' = supplied
                      /\ response' = [Reply(inflight[w].op, inflight[w].caller, r,
                                            "ServerError", "", TRUE)
                                         EXCEPT !.body = note]
             ELSE IF k = Len(list)
                 THEN /\ inflight' = Finish(w)
                      /\ supplied' = supplied
                      /\ response' = [Reply(inflight[w].op, inflight[w].caller, r,
                                            IF inflight[w].op = "create"
                                                THEN "Created" ELSE "OK",
                                            "", TRUE)
                                         EXCEPT !.body = note]
             ELSE /\ inflight' = [inflight EXCEPT ![w].k = k + 1]
                  /\ UNCHANGED << supplied, response >>
    /\ UNCHANGED << ingredients, recipes, recipeSeq, favorites, ratings, comments,
                    commentSeq, inbox >>

\* DELETE /ingredients/{i}/: IsAuthenticated; RecipeIngredient.ingredient is
\* on_delete=CASCADE
DestroyIngredient(caller, i) ==
    /\ UNCHANGED << recipes, recipeSeq, favorites, ratings, comments, commentSeq,
                    inflight, inbox, supplied >>
    /\ IF ~HasPermission(IngredientPermissions("destroy"), caller)
           THEN /\ response' = Reply("destroy_ingredient", caller, i,
                                     Denied(caller), "", FALSE)
                /\ UNCHANGED << ingredients, rows >>
       ELSE IF i \notin ingredients
           THEN /\ response' = Reply("destroy_ingredient", caller, i,
                                     "NotFound", "", TRUE)
                /\ UNCHANGED << ingredients, rows >>
       ELSE /\ ingredients' = ingredients \ {i}
            /\ rows' = Restrict(rows, {x \in BagToSet(rows) : x.ingredient # i})
            /\ response' = Reply("destroy_ingredient", caller, i,
                                 "NoContent", "", TRUE)

NextConcurrent ==
    \/ \E w \in Workers, raw \in ConcurrentPayloads : BeginCreate(w, "alice", raw)
    \/ \E w \in Workers, r \in 1..MaxRecipes, raw \in ConcurrentPayloads :
          BeginUpdate(w, "alice", r, raw)
    \/ \E w \in Workers : StepCreate(w)
    \/ \E w \in Workers : StepSave(w)
    \/ \E w \in Workers : StepDelete(w)
    \/ \E w \in Workers : StepInsert(w)
    \/ \E i \in {2} : DestroyIngredient("bob", i)

SpecConcurrent == Init /\ [][NextConcurrent]_vars

(* ------------------- favorites and the shopping list ------------------- *)
\* The @action decorators of favorite, rating and shopping_list pass
\* permission_classes=[IsAuthenticated], but the view's get_permissions()
\* never reads self.permission_classes: the permission checked for these
\* actions is RecipePermissions(action).

\* mutation of FavoriteExists: the lookup finds nothing
FavoriteExistsNever(bag, u, r) == FALSE

\* Favorite.objects.filter(user=user, recipe=recipe).exists()
FavoriteExists(bag, u, r) == BagIn([user |-> u, recipe |-> r], bag)

\* Favorite.objects.create: unique_together = ('user', 'recipe')
InsertFavorite(bag, u, r) ==
    IF BagIn([user |-> u, recipe |-> r], bag)
        THEN [ok |-> FALSE, rows |-> bag]
    ELSE [ok |-> TRUE, rows |-> bag (+) SetToBag({[user |-> u, recipe |-> r]})]

\* POST /recipes/{r}/favorite/
FavoriteRecipe(caller, r) ==
    /\ UNCHANGED << ingredients, recipes, recipeSeq, rows, ratings, comments,
                    commentSeq, inflight, inbox, supplied >>
    /\ LET ins == InsertFavorite(favorites, caller, r)
       IN IF ~HasPermission(RecipePermissions("favorite"), caller)
              THEN /\ response' = Reply("favorite", caller, r, Denied(caller), "", FALSE)
                   /\ favorites' = favorites
          ELSE IF r \notin DOMAIN recipes
              THEN /\ response' = Reply("favorite", caller, r, "NotFound", "", TRUE)
                   /\ favorites' = favorites
          ELSE IF caller \notin Users
              \* the lookup with an AnonymousUser raises
              THEN /\ response' = Reply("favorite", caller, r, "ServerError", "", TRUE)
                   /\ favorites' = favorites
          ELSE IF FavoriteExists(favorites, caller, r)
              THEN /\ response' = Reply("favorite", caller, r, "BadRequest",
                                        "AlreadyFavorited", TRUE)
                   /\ favorites' = favorites
          ELSE /\ favorites' = ins.rows
               /\ response' = Reply("favorite", caller, r,
                                    IF ins.ok THEN "Created" ELSE "ServerError",
                                    "", TRUE)

\* DELETE /recipes/{r}/favorite/
UnfavoriteRecipe(caller, r) ==
    /\ UNCHANGED << ingredients, recipes, recipeSeq, rows, ratings, comments,
                    commentSeq, inflight, inbox, supplied >>
    /\ IF ~HasPermission(RecipePermissions("favorite"), caller)
           THEN /\ response' = Reply("unfavorite", caller, r, Denied(caller), "", FALSE)
                /\ favorites' = favorites
       ELSE IF r \notin DOMAIN recipes
           THEN /\ response' = Reply("unfavorite", caller, r, "NotFound", "", TRUE)
                /\ favorites' = favorites
       ELSE IF caller \notin Users
           THEN /\ response' = Reply("unfavorite", caller, r, "ServerError", "", TRUE)
                /\ favorites' = favorites
       ELSE IF ~BagIn([user |-> caller, recipe |-> r], favorites)
           \* get_object_or_404(Favorite, user=user, recipe=recipe)
           THEN /\ response' = Reply("unfavorite", caller, r, "NotFound",
                                     "NoFavorite", TRUE)
                /\ favorites' = favorites
       ELSE /\ favorites' = Restrict(favorites,
                               BagToSet(favorites) \ {[user |-> caller, recipe |-> r]})
            /\ response' = Reply("unfavorite", caller, r, "NoContent", "", TRUE)

\* the recipes the aggregation walks, each with the number of times the
\* queryset yields it: filter(id__in=recipe_ids), or the join
\* filter(favorites__user=user), one result per Favorite row
SelectedRecipes(body, caller) ==
    IF Get(body, "recipe_ids", << >>) # << >>
        THEN [r \in DOMAIN recipes \cap Range(body.recipe_ids) |-> 1]
    ELSE [r \in {x \in DOMAIN recipes :
                    BagIn([user |-> caller, recipe |-> x], favorites)}
             |-> CopiesIn([user |-> caller, recipe |-> r], favorites)]

\* mutation of KeyOf: the total is keyed by the ingredient's name alone
KeyOfNameOnly(i) == << IngredientCatalog[i].name, "" >>

\* key = (recipe_ing.ingredient.name, recipe_ing.ingredient.unit)
KeyOf(i) == << IngredientCatalog[i].name, IngredientCatalog[i].unit >>

\* the two nested loops: every row still to visit adds its amount to the
\* entry of its key, which is made when the key is new
RECURSIVE Accumulate(_, _, _)
Accumulate(totals, todo, times) ==
    IF todo = {} THEN totals
    ELSE LET x == CHOOSE y \in todo : TRUE
             key == KeyOf(x.ingredient)
             amount == x.amount * CopiesIn(x, rows) * times[x.recipe]
         IN Accumulate(IF key \in DOMAIN totals
                           THEN [totals EXCEPT ![key] = @ + amount]
                           ELSE (key :> amount) @@ totals,
                       todo \ {x}, times)

\* ShoppingListSerializer.create for an authenticated user
ShoppingTotals(body, caller) ==
    LET times == SelectedRecipes(body, caller)
    IN Accumulate(EmptyDict,
                  {x \in BagToSet(rows) : x.recipe \in DOMAIN times}, times)

\* the request bodies of the shopping-list runs
ShoppingBodies ==
    { EmptyDict, [recipe_ids |-> << >>], [recipe_ids |-> << 1 >>],
      [recipe_ids |-> << 2, 1 >>], [recipe_ids |-> << 1, 1, MaxRecipes + 1 >>] }

\* POST /recipes/shopping_list/; the body is the dictionary that
\* serializer.save() returns and the view passes to Response
ShoppingList(caller, body) ==
    /\ UNCHANGED << store, inflight, inbox, supplied >>
    /\ IF ~HasPermission(RecipePermissions("shopping_list"), caller)
           THEN response' = [Reply("shopping_list", caller, 0, Denied(caller),
                                   "", FALSE) EXCEPT !.input = body]
       ELSE IF caller \notin Users
           \* create(): raise serializers.ValidationError("User must be authenticated")
           THEN response' = [Reply("shopping_list", caller, 0, "BadRequest",
                                   "UserMustBeAuthenticated", TRUE)
                                EXCEPT !.input = body]
       ELSE response' = [Reply("shopping_list", caller, 0, "OK", "", TRUE)
                            EXCEPT !.input = body,
                                   !.body = ShoppingTotals(body, caller)]

\* the payloads of the recipes the social runs create (amounts in hundredths)
SocialPayloads ==
    { ScalarsA @@ TagsPart({"t1"})
               @@ ListPart(<< Entry(1, 20000), Entry(2, 5000) >>),
      ScalarsB @@ TagsPart({"t2"})
               @@ ListPart(<< Entry(1, 30000), Entry(3, 200) >>),
      ScalarsB @@ TagsPart({"t1"}) @@ ListPart(<< Entry(4, 150) >>) }

InitSocial == InitWith(IngredientIds)

NextSocial ==
    \/ \E raw \in SocialPayloads : CreateRecipe("alice", raw)
    \/ \E caller \in Callers, r \in 1..MaxRecipes : FavoriteRecipe(caller, r)
    \/ \E caller \in Callers, r \in 1..MaxRecipes : UnfavoriteRecipe(caller, r)
    \/ \E caller \in Callers, body \in ShoppingBodies : ShoppingList(caller, body)

SpecSocial == InitSocial /\ [][NextSocial]_vars

(* ------------------------------- ratings ------------------------------- *)
\* request.data.get('value'): absent, a JSON number (its whole part and
\* whether it has a fractional part) or a string that is not a number
NoValue == [kind |-> "absent"]
Number(whole, frac) == [kind |-> "number", whole |-> whole, frac |-> frac]
Text == [kind |-> "text"]
\* "not value"
Falsy(value) ==
    \/ value.kind = "absent"
    \/ value.kind = "number" /\ value.whole = 0 /\ ~value.frac
\* int(value) of a non-negative number drops the fractional part
IntOf(value) == value.whole

RatingValues ==
    { NoValue, Text, Number(0, FALSE), Number(0, TRUE), Number(1, FALSE),
      Number(5, FALSE), Number(5, TRUE), Number(6, FALSE) }

RatingRowsOf(bag, u, r) == {x \in BagToSet(bag) : x.user = u /\ x.recipe = r}

\* Rating.objects.get_or_create(user, recipe, defaults={'value': v}) and,
\* when the row was there, rating.value = v; rating.save()
UpsertRating(bag, u, r, v) ==
    IF RatingRowsOf(bag, u, r) = {}
        THEN bag (+) SetToBag({[user |-> u, recipe |-> r, value |-> v]})
    ELSE LET row == CHOOSE x \in RatingRowsOf(bag, u, r) : TRUE
         IN Restrict(bag, BagToSet(bag) \ {row})
                (+) SetToBag({[user |-> u, recipe |-> r, value |-> v]})

\* POST /recipes/{r}/rating/
PostRating(caller, r, value) ==
    /\ UNCHANGED << ingredients, recipes, recipeSeq, rows, favorites, comments,
                    commentSeq, inflight, inbox, supplied >>
    /\ LET answer(status, error) ==
               [Reply("rating", caller, r, status, error, TRUE)
                   EXCEPT !.input = value]
       IN IF ~HasPermission(RecipePermissions("rating"), caller)
              THEN /\ response' = [Reply("rating", caller, r, Denied(caller),
                                         "", FALSE) EXCEPT !.input = value]
                   /\ ratings' = ratings
          ELSE IF r \notin DOMAIN recipes
              THEN /\ response' = answer("NotFound", "")
                   /\ ratings' = ratings
          ELSE IF Falsy(value)
              THEN /\ response' = answer("BadRequest", "InvalidValue")
                   /\ ratings' = ratings
          ELSE IF value.kind = "text"
              \* int(value) raises ValueError
              THEN /\ response' = answer("ServerError", "")
                   /\ ratings' = ratings
          ELSE IF IntOf(value) < MinRating \/ IntOf(value) > MaxRating
              THEN /\ response' = answer("BadRequest", "InvalidValue")
                   /\ ratings' = ratings
          ELSE IF caller \notin Users
              \* the lookup with an AnonymousUser raises
              THEN /\ response' = answer("ServerError", "")
                   /\ ratings' = ratings
          ELSE /\ ratings' = UpsertRating(ratings, caller, r, IntOf(value))
               /\ response' = answer("Created", "")

\* DELETE /recipes/{r}/rating/
DeleteRating(caller, r) ==
    /\ UNCHANGED << ingredients, recipes, recipeSeq, rows, favorites, comments,
                    commentSeq, inflight, inbox, supplied >>
    /\ IF ~HasPermission(RecipePermissions("rating"), caller)
           THEN /\ response' = Reply("rating_delete", caller, r, Denied(caller),
                                     "", FALSE)
                /\ ratings' = ratings
       ELSE IF r \notin DOMAIN recipes
           THEN /\ response' = Reply("rating_delete", caller, r, "NotFound", "", TRUE)
                /\ ratings' = ratings
       ELSE IF caller \notin Users
           THEN /\ response' = Reply("rating_delete", caller, r, "ServerError", "", TRUE)
                /\ ratings' = ratings
       ELSE IF RatingRowsOf(ratings, caller, r) = {}
           \* get_object_or_404(Rating, user=user, recipe=recipe)
           THEN /\ response' = Reply("rating_delete", caller, r, "NotFound",
                                     "NoRating", TRUE)
                /\ ratings' = ratings
       ELSE /\ ratings' = Restrict(ratings,
                             BagToSet(ratings) \ RatingRowsOf(ratings, caller, r))
            /\ response' = Reply("rating_delete", caller, r, "NoContent", "", TRUE)

NextRating ==
    \/ CreateRecipe("alice", ScalarsA @@ TagsPart({"t1"}) @@ ListPart(<< Entry(1, 10) >>))
    \/ \E caller \in Callers, r \in 1..MaxRecipes, value \in RatingValues :
          PostRating(caller, r, value)
    \/ \E caller \in Callers, r \in 1..MaxRecipes : DeleteRating(caller, r)

SpecRating == Init /\ [][NextRating]_vars

(* ------------------- recipes and comments, all callers ----------------- *)
\* on_delete=CASCADE of every row that references the recipe
CascadeRecipe(bag, r) == Restrict(bag, {x \in BagToSet(bag) : x.recipe # r})
CascadeComments(table, r) ==
    [c \in {d \in DOMAIN table : table[d].recipe # r} |-> table[c]]

\* DELETE /recipes/{r}/
DestroyRecipe(caller, r) ==
    /\ UNCHANGED << ingredients, recipeSeq, commentSeq, inflight, inbox >>
    /\ LET perm == RecipePermissions("destroy")
       IN IF ~HasPermission(perm, caller)
              THEN /\ response' = Reply("destroy", caller, r, Denied(caller), "", FALSE)
                   /\ UNCHANGED << recipes, rows, favorites, ratings, comments,
                                   supplied >>
          ELSE IF r \notin DOMAIN recipes
              THEN /\ response' = Reply("destroy", caller, r, "NotFound", "", TRUE)
                   /\ UNCHANGED << recipes, rows, favorites, ratings, comments,
                                   supplied >>
          ELSE IF ~HasObjectPermission(perm, MethodOf("destroy"),
                                       recipes[r].author, caller)
              THEN /\ response' = Reply("destroy", caller, r, Denied(caller), "", FALSE)
                   /\ UNCHANGED << recipes, rows, favorites, ratings, comments,
                                   supplied >>
          ELSE /\ recipes' = [x \in DOMAIN recipes \ {r} |-> recipes[x]]
               /\ rows' = CascadeRecipe(rows, r)
               /\ favorites' = CascadeRecipe(favorites, r)
               /\ ratings' = CascadeRecipe(ratings, r)
               /\ comments' = CascadeComments(comments, r)
               /\ supplied' = [x \in DOMAIN supplied \ {r} |-> supplied[x]]
               /\ response' = Reply("destroy", caller, r, "NoContent", "", TRUE)

\* GET /recipes/{r}/ and GET /recipes/
ReadRecipe(caller, action, r) ==
    /\ UNCHANGED << store, inflight, inbox, supplied >>
    /\ LET perm == RecipePermissions(action)
       IN IF ~HasPermission(perm, caller)
              THEN response' = Reply(action, caller, r, Denied(caller), "", FALSE)
          ELSE IF action = "retrieve" /\ r \notin DOMAIN recipes
              THEN response' = Reply(action, caller, r, "NotFound", "", TRUE)
          ELSE IF action = "retrieve"
                  /\ ~HasObjectPermission(perm, MethodOf(action),
                                          recipes[r].author, caller)
              THEN response' = Reply(action, caller, r, Denied(caller), "", FALSE)
          ELSE response' = Reply(action, caller, r, "OK", "", TRUE)

\* a Comment saved through the admin site
AdminAddComment(author, r, text) ==
    /\ commentSeq < MaxComments
    /\ r \in DOMAIN recipes
    /\ commentSeq' = commentSeq + 1
    /\ comments' = (commentSeq + 1 :> [recipe |-> r, author |-> author, text |-> text])
                      @@ comments
    /\ response' = NoResponse
    /\ UNCHANGED << ingredients, recipes, recipeSeq, rows, favorites, ratings,
                    inflight, inbox, supplied >>

\* CommentSerializer: text is the one writable field, required and not blank
CommentValid(raw, partial) ==
    IF "text" \notin DOMAIN raw THEN partial ELSE raw.text # ""

\* POST /comments/: perform_create saves with an author and without a
\* recipe, which the NOT NULL recipe column refuses
CreateComment(caller, raw) ==
    /\ UNCHANGED << store, inflight, inbox, supplied >>
    /\ LET perm == CommentPermissions("create")
           answer(status, permitted) ==
               [Reply("comment_create", caller, 0, status, "", permitted)
                   EXCEPT !.input = raw]
       IN IF ~HasPermission(perm, caller)
              THEN response' = answer(Denied(caller), FALSE)
          ELSE IF ~CommentValid(raw, FALSE)
              THEN response' = answer("BadRequest", TRUE)
          ELSE response' = answer("ServerError", TRUE)

\* PUT/PATCH /comments/{c}/
UpdateComment(caller, c, raw, partial) ==
    /\ UNCHANGED << ingredients, recipes, recipeSeq, rows, favorites, ratings,
                    commentSeq, inflight, inbox, supplied >>
    /\ LET action == IF partial THEN "partial_update" ELSE "update"
           perm == CommentPermissions(action)
           answer(status, permitted) ==
               [Reply("comment_" \o action, caller, c, status, "", permitted)
                   EXCEPT !.input = raw]
       IN IF ~HasPermission(perm, caller)
              THEN /\ response' = answer(Denied(caller), FALSE)
                   /\ comments' = comments
          ELSE IF c \notin DOMAIN comments
              THEN /\ response' = answer("NotFound", TRUE)
                   /\ comments' = comments
          ELSE IF ~HasObjectPermission(perm, MethodOf(action),
                                       comments[c].author, caller)
              THEN /\ response' = answer(Denied(caller), FALSE)
                   /\ comments' = comments
          ELSE IF ~CommentValid(raw, partial)
              THEN /\ response' = answer("BadRequest", TRUE)
                   /\ comments' = comments
          ELSE /\ comments' = [comments EXCEPT ![c].text = Get(raw, "text", @)]
               /\ response' = answer("OK", TRUE)

\* DELETE /comments/{c}/
DestroyComment(caller, c) ==
    /\ UNCHANGED << ingredients, recipes, recipeSeq, rows, favorites, ratings,
                    commentSeq, inflight, inbox, supplied >>
    /\ LET perm == CommentPermissions("destroy")
           answer(status, permitted) ==
               Reply("comment_destroy", caller, c, status, "", permitted)
       IN IF ~HasPermission(perm, caller)
              THEN /\ response' = answer(Denied(caller), FALSE)
                   /\ comments' = comments
          ELSE IF c \notin DOMAIN comments
              THEN /\ response' = answer("NotFound", TRUE)
                   /\ comments' = comments
          ELSE IF ~HasObjectPermission(perm, MethodOf("destroy"),
                                       comments[c].author, caller)
              THEN /\ response' = answer(Denied(caller), FALSE)
                   /\ comments' = comments
          ELSE /\ comments' = [x \in DOMAIN comments \ {c} |-> comments[x]]
               /\ response' = answer("NoContent", TRUE)

\* GET /comments/{c}/ and GET /comments/
ReadComment(caller, action, c) ==
    /\ UNCHANGED << store, inflight, inbox, supplied >>
    /\ LET perm == CommentPermissions(action)
           answer(status, permitted) ==
               Reply("comment_" \o action, caller, c, status, "", permitted)
       IN IF ~HasPermission(perm, caller)
              THEN response' = answer(Denied(caller), FALSE)
          ELSE IF action = "retrieve" /\ c \notin DOMAIN comments
              THEN response' = answer("NotFound", TRUE)
          ELSE IF action = "retrieve"
                  /\ ~HasObjectPermission(perm, MethodOf(action),
                                          comments[c].author, caller)
              THEN response' = answer(Denied(caller), FALSE)
          ELSE response' = answer("OK", TRUE)

AccessCreate == ScalarsA @@ TagsPart({"t1"}) @@ ListPart(<< Entry(1, 10) >>)
AccessUpdate == ScalarsB @@ TagsPart({"t2"}) @@ ListPart(<< Entry(2, 10) >>)
CommentPayloads == { EmptyDict, [text |-> "edited"] }

\* alice (and nobody else) authors recipes, bob authors comments; every
\* caller sends every kind of request
NextAccess ==
    \/ \E caller \in {"alice", Anonymous} : CreateRecipe(caller, AccessCreate)
    \/ \E caller \in Callers, r \in 1..MaxRecipes, partial \in BOOLEAN :
          UpdateRecipe(caller, r, AccessUpdate, partial)
    \/ \E caller \in Callers, r \in 1..MaxRecipes : DestroyRecipe(caller, r)
    \/ \E caller \in Callers, r \in 1..MaxRecipes :
          ReadRecipe(caller, "retrieve", r)
    \/ \E caller \in Callers : ReadRecipe(caller, "list", 0)
    \/ \E r \in 1..MaxRecipes : AdminAddComment("bob", r, "nice")
    \/ \E caller \in Callers, raw \in CommentPayloads : CreateComment(caller, raw)
    \/ \E caller \in Callers, c \in 1..MaxComments, raw \in CommentPayloads,
          partial \in BOOLEAN : UpdateComment(caller, c, raw, partial)
    \/ \E caller \in Callers, c \in 1..MaxComments : DestroyComment(caller, c)
    \/ \E caller \in Callers, c \in 1..MaxComments :
          ReadComment(caller, "retrieve", c)
    \/ \E caller \in Callers : ReadComment(caller, "list", 0)

SpecAccess == Init /\ [][NextAccess]_vars

(* ======================= properties of the claims ====================== *)
Updates == {"update", "partial_update"}
StoreUntouched ==
    /\ recipes = EmptyDict
    /\ rows = EmptyBag
    /\ recipeSeq = 0
    /\ ingredients = {1, 2}

BadAmount(e) == e.amount < MinAmount
Unknown(e, ings) == e.ingredient \notin ings

\* what validate() is to answer on a payload whose fields are well formed:
\* rules 1-3 on the whole payload, then the first entry, in list order, that
\* breaks rule 4 or rule 5, its amount looked at first
ExpectedValidation(raw, ings) ==
    LET tags == Get(raw, "tag_ids", {})
        list == Get(raw, "ingredients_data", << >>)
        bad == {k \in DOMAIN list : BadAmount(list[k]) \/ Unknown(list[k], ings)}
        first == CHOOSE k \in bad : \A j \in bad : k <= j
    IN IF tags = {} THEN Failure("MissingTags", 0)
       ELSE IF list = << >> THEN Failure("MissingIngredients", 0)
       ELSE IF \E j, k \in DOMAIN list : j < k /\ list[j].ingredient = list[k].ingredient
           THEN Failure("DuplicateIngredient", 0)
       ELSE IF bad = {} THEN Success
       ELSE IF BadAmount(list[first]) THEN Failure("InvalidAmount", 0)
       ELSE Failure("UnknownIngredient", list[first].ingredient)

\* the failure of the lowest-numbered violated rule, rule 4 (amounts) being
\* settled for the whole list before rule 5 (existence)
LowestRule(raw, ings) ==
    LET tags == Get(raw, "tag_ids", {})
        list == Get(raw, "ingredients_data", << >>)
    IN IF tags = {} THEN "MissingTags"
       ELSE IF list = << >> THEN "MissingIngredients"
       ELSE IF \E j, k \in DOMAIN list : j < k /\ list[j].ingredient = list[k].ingredient
           THEN "DuplicateIngredient"
       ELSE IF \E k \in DOMAIN list : BadAmount(list[k]) THEN "InvalidAmount"
       ELSE IF \E k \in DOMAIN list : Unknown(list[k], ings) THEN "UnknownIngredient"
       ELSE ""

SuppliedPartsValid(raw, partial, ings) ==
    /\ FieldsValid(raw, partial)
    /\ "tag_ids" \in DOMAIN raw => raw.tag_ids # {}
    /\ "ingredients_data" \in DOMAIN raw =>
          ExpectedValidation([tag_ids |-> {"t1"},
                              ingredients_data |-> raw.ingredients_data], ings).ok

\* C2 as claimed: an update by the author with a payload that is valid in
\* what it supplies is accepted, and every field it omits (title,
\* description, steps, time, tags, ingredient rows) keeps its stored value
C2_OmittedFieldsAcceptedAndKept ==
    [][\A r \in DOMAIN recipes :
          ( /\ response'.op \in Updates
            /\ response'.target = r
            /\ response'.caller = recipes[r].author
            /\ SuppliedPartsValid(response'.input,
                                  response'.op = "partial_update", ingredients) )
          => /\ response'.status = "OK"
             /\ \A f \in {"title", "description", "steps", "time_minutes"}
                          \ DOMAIN response'.input :
                    recipes'[r][f] = recipes[r][f]
             /\ "tag_ids" \notin DOMAIN response'.input
                    => recipes'[r].tags = recipes[r].tags
             /\ "ingredients_data" \notin DOMAIN response'.input
                    => rows' = rows]_vars

\* C4: the RecipeIngredient rows of every recipe are exactly the entries of
\* the list of the last successful create or update that supplied one: the
\* same (ingredient, amount) pairs, one row per entry
C4_RowsAreLastSuppliedList ==
    \A r \in DOMAIN recipes :
        /\ r \in DOMAIN supplied
        /\ PairsOf(rows, r) = ListPairs(supplied[r])
        /\ CountRows(rows, r) = Len(supplied[r])

\* C4 witness: an accepted update left a recipe with the new list only
\* (every list a create accepts holds ingredient 1)
C4_Witness ==
    /\ response.op \in Updates
    /\ response.status = "OK"
    /\ PairsOf(rows, response.target) = {<< 2, 10 >>}
    /\ supplied[response.target] = << Entry(2, 10) >>

\* C1 as claimed: when a step of the replacement fails after the old rows
\* were deleted, the update has changed nothing: the rows it deleted are
\* stored again (those whose ingredient still exists) and none of the new
\* rows it had inserted is left
C1_FailedReplacementRestoresOldRows ==
    (response.op = "update" /\ response.status = "ServerError")
        => LET now == PairsOf(rows, response.target)
               old == {p \in response.body.old : p[1] \in ingredients}
           IN /\ old \subseteq now
              /\ (response.body.inserted \ old) \cap now = {}

RowsWellFormed ==
    /\ \A x \in BagToSet(rows) :
           /\ CopiesIn(x, rows) = 1
           /\ x.amount >= MinAmount
    /\ \A x, y \in BagToSet(rows) :
           (x.recipe = y.recipe /\ x.ingredient = y.ingredient) => x = y

\* a row that this step stores is an entry of the payload of a request in
\* progress, and its ingredient existed when that payload was validated
InsertedFromValidatedPayload ==
    \A x \in BagToSet(rows') :
        CopiesIn(x, rows') > CopiesIn(x, rows)
            => \E w \in Workers :
                  /\ Busy(w)
                  /\ inflight[w].recipe = x.recipe
                  /\ x.ingredient \in inflight[w].known
                  /\ <<x.ingredient, x.amount>>
                         \in ListPairs(inflight[w].data.ingredients_data)

\* C10: under every interleaving of create and update requests (and of the
\* deletion of an ingredient), no recipe has two RecipeIngredient rows for
\* the same ingredient, every stored amount is at least 0.1, and every row
\* stored references an ingredient that existed when its payload was
\* validated
C10_RowsUniqueAndValidated ==
    [] RowsWellFormed /\ [][InsertedFromValidatedPayload]_vars

\* C10 witness: two updates of one recipe ran interleaved and the unique
\* constraint refused a row of the second (no ingredient was deleted)
C10_Witness ==
    /\ response.op = "update"
    /\ response.status = "ServerError"
    /\ ingredients = {1, 2}
    /\ \E x \in RowsOf(rows, response.target) : x.ingredient = 1

SumAmounts(S) ==
    LET RECURSIVE Sum(_)
        Sum(T) == IF T = {} THEN 0
                  ELSE LET x == CHOOSE y \in T : TRUE
                       IN x.amount + Sum(T \ {x})
    IN Sum(S)

\* the shopping list the caller is to get: one entry per (name, unit) of the
\* rows of the selected recipes, holding the sum of their amounts
ExpectedShopping(body, caller) ==
    LET ids == Get(body, "recipe_ids", << >>)
        sel == IF ids = << >>
                   THEN {r \in DOMAIN recipes :
                            [user |-> caller, recipe |-> r] \in BagToSet(favorites)}
                   ELSE {r \in DOMAIN recipes : \E k \in DOMAIN ids : ids[k] = r}
        picked == {x \in BagToSet(rows) : x.recipe \in sel}
        name(x) == IngredientCatalog[x.ingredient].name
        unit(x) == IngredientCatalog[x.ingredient].unit
        keys == {<< name(x), unit(x) >> : x \in picked}
    IN [key \in keys |->
           SumAmounts({x \in picked : name(x) = key[1] /\ unit(x) = key[2]})]

\* C5: the shopping list of an authenticated caller has one entry per
\* distinct (name, unit) among the rows of the selected recipes, its total
\* the exact sum of those rows' amounts, every selected recipe counted once;
\* the selection is the stored recipes named in recipe_ids or, when that is
\* empty or absent, the caller's favorites; and nothing stored changes
C5_ShoppingListSumsByNameAndUnit ==
    [][(response'.op = "shopping_list" /\ response'.caller \in Users)
          => /\ response'.status = "OK"
             /\ response'.body = ExpectedShopping(response'.input, response'.caller)
             /\ UNCHANGED store]_vars

\* C5 witness: R1 (flour 200 g, sugar 50 g) and R2 (flour 300 g, egg 2 pcs)
\* give flour 500 g, sugar 50 g, egg 2 pcs
C5_Witness ==
    /\ response.op = "shopping_list"
    /\ response.status = "OK"
    /\ response.body = (<< "flour", "g" >> :> 50000) @@ (<< "sugar", "g" >> :> 5000)
                          @@ (<< "egg", "pcs" >> :> 200)

\* C6 as claimed: an unauthenticated request to shopping_list, favorite or
\* rating is refused as not authenticated before the handler body runs
C6_AnonymousRefusedBeforeHandler ==
    (/\ response.caller = Anonymous
     /\ response.op \in {"shopping_list", "favorite", "unfavorite", "rating",
                         "rating_delete"})
        => /\ response.status = "NotAuthenticated"
           /\ ~response.permitted

FavoriteRow(u, r) == [user |-> u, recipe |-> r]

\* C7: at most one Favorite row per (user, recipe); favorite adds the row
\* and succeeds iff there is none, and is otherwise rejected as already
\* favorited, changing nothing; unfavorite removes the row iff there is one
\* and is otherwise rejected with NotFound, changing nothing
C7_FavoriteToggle ==
    /\ [](\A x \in BagToSet(favorites) : CopiesIn(x, favorites) = 1)
    /\ [][\A u \in Users, r \in DOMAIN recipes :
            (response'.caller = u /\ response'.target = r)
            => /\ response'.op = "favorite"
                  => IF FavoriteRow(u, r) \in BagToSet(favorites)
                         THEN /\ response'.status = "BadRequest"
                              /\ response'.error = "AlreadyFavorited"
                              /\ favorites' = favorites
                         ELSE /\ response'.status = "Created"
                              /\ favorites' = favorites (+) SetToBag({FavoriteRow(u, r)})
               /\ response'.op = "unfavorite"
                  => IF FavoriteRow(u, r) \in BagToSet(favorites)
                         THEN /\ response'.status = "NoContent"
                              /\ favorites' (+) SetToBag({FavoriteRow(u, r)}) = favorites
                         ELSE /\ response'.status = "NotFound"
                              /\ favorites' = favorites]_vars

\* C7 witness: a second favorite of the same recipe by the same user was
\* rejected and the row is still there
C7_Witness ==
    /\ response.op = "favorite"
    /\ response.error = "AlreadyFavorited"
    /\ CopiesIn(FavoriteRow(response.caller, response.target), favorites) = 1

AcceptableRating(value) ==
    /\ value.kind = "number"
    /\ ~value.frac
    /\ value.whole \in MinRating..MaxRating

\* C8 as claimed: for an authenticated user and a stored recipe, a POST whose
\* value is an integer in 1..5 leaves exactly one Rating row for the pair,
\* holding that value; a POST with a missing value or any other value is
\* rejected; every stored value is in 1..5 and no pair has two rows
C8_RatingUpsert ==
    /\ \A x \in BagToSet(ratings) :
          /\ CopiesIn(x, ratings) = 1
          /\ x.value \in MinRating..MaxRating
          /\ RatingRowsOf(ratings, x.user, x.recipe) = {x}
    /\ (response.op = "rating" /\ response.caller \in Users
            /\ response.target \in DOMAIN recipes)
        => IF AcceptableRating(response.input)
               THEN /\ response.status = "Created"
                    /\ RatingRowsOf(ratings, response.caller, response.target)
                          = {[user |-> response.caller, recipe |-> response.target,
                              value |-> response.input.whole]}
               ELSE response.status \in {"BadRequest", "ServerError"}

RecipeWrites == {"update", "partial_update", "destroy"}
CommentWrites == {"comment_update", "comment_partial_update", "comment_destroy"}
Reads == {"retrieve", "list", "comment_retrieve", "comment_list"}
Creates == {"create", "comment_create"}
Refused ==
    /\ ~response'.permitted
    /\ response'.status \in {"NotAuthenticated", "PermissionDenied"}
    /\ UNCHANGED store

\* C9: for recipes and comments alike, an update or delete of a stored
\* resource is permitted iff the requester is its author, and a denied one
\* leaves everything stored unchanged, while the author's delete removes the
\* resource; retrieve and list are permitted for every caller; create is
\* permitted iff the caller is authenticated
C9_OnlyAuthorWrites ==
    [][/\ (response'.op \in RecipeWrites /\ response'.target \in DOMAIN recipes)
          => IF response'.caller = recipes[response'.target].author
                 THEN /\ response'.permitted
                      /\ response'.op = "destroy"
                            => response'.target \notin DOMAIN recipes'
                 ELSE Refused
       /\ (response'.op \in CommentWrites /\ response'.target \in DOMAIN comments)
          => IF response'.caller = comments[response'.target].author
                 THEN /\ response'.permitted
                      /\ response'.op = "comment_destroy"
                            => response'.target \notin DOMAIN comments'
                 ELSE Refused
       /\ response'.op \in Reads => response'.permitted /\ UNCHANGED store
       /\ response'.op \in Creates
          => IF response'.caller \in Users THEN response'.permitted ELSE Refused]_vars

\* C9 witness: an authenticated user who is not the author was refused the
\* delete of a recipe that has rows and a comment, all of them still stored
C9_Witness ==
    /\ response.op = "destroy"
    /\ response.status = "PermissionDenied"
    /\ response.target \in DOMAIN recipes
    /\ response.caller \in Users \ {recipes[response.target].author}
    /\ RowsOf(rows, response.target) # {}
    /\ \E c \in DOMAIN comments : comments[c].recipe = response.target

\* C11 as claimed: a comment create request by an authenticated user with a
\* valid text succeeds and stores exactly one new Comment, whose author is
\* the requester and whose recipe is a stored recipe; no stored Comment
\* lacks a recipe
C11_CommentCreateStoresOneComment ==
    [][(/\ response'.op = "comment_create"
        /\ response'.caller \in Users
        /\ CommentValid(response'.input, FALSE))
          => /\ response'.status = "Created"
             /\ \E c \in DOMAIN comments' \ DOMAIN comments :
                   /\ DOMAIN comments' = DOMAIN comments \cup {c}
                   /\ comments'[c].author = response'.caller
                   /\ comments'[c].recipe \in DOMAIN recipes']_vars

====
